---- MODULE Spec2Model ----
(***************************************************************************)
(* Network rate sampler of umbreld's system widgets                        *)
(* (packages/umbreld/source/modules/system/system-widgets.ts).             *)
(*                                                                         *)
(* Three specifications are defined over the same variables:               *)
(*   Spec       the sampler getNetworkRates with overlapping invocations,  *)
(*              a changing /proc/net/dev and a clock that may step in any  *)
(*              direction;                                                 *)
(*   SpecParse  the pure function parseProcNetDev applied to texts built   *)
(*              from a menu of lines;                                      *)
(*   SpecMono   the sampler with a counter source that never decreases and *)
(*              a clock that never goes back, recording for each           *)
(*              invocation the sample stored when it was called.           *)
(*                                                                         *)
(* A text is a sequence of one-character strings.  A JavaScript number is  *)
(* a record: an exact rational n/d (doubles are abstracted to exact        *)
(* rationals, rounding is not modelled), +Infinity, -Infinity or NaN.      *)
(***************************************************************************)
EXTENDS Integers, Sequences, FiniteSets, TLC

(***************************************************************************)
(* JavaScript numbers                                                      *)
(***************************************************************************)
RECURSIVE GCD(_, _)
GCD(a, b) == IF b = 0 THEN a ELSE GCD(b, a % b)

Abs(x) == IF x < 0 THEN -x ELSE x

Sgn(x) == IF x < 0 THEN -1 ELSE IF x > 0 THEN 1 ELSE 0

\* the rational n/d (d > 0) in lowest terms
Rat(n, d) ==
    LET g == GCD(Abs(n), d)
    IN  [k |-> "fin", n |-> n \div g, d |-> d \div g]

Int2Num(i) == [k |-> "fin", n |-> i, d |-> 1]

Zero == Int2Num(0)

Inf(s) == [k |-> "inf", n |-> s, d |-> 0]

NaN == [k |-> "nan", n |-> 0, d |-> 0]

NumNeg(a) == [a EXCEPT !.n = -a.n]

\* a + b
NumAdd(a, b) ==
    IF a.k = "nan" \/ b.k = "nan" THEN NaN
    ELSE IF a.k = "inf" /\ b.k = "inf" THEN (IF a.n = b.n THEN a ELSE NaN)
    ELSE IF a.k = "inf" THEN a
    ELSE IF b.k = "inf" THEN b
    ELSE Rat(a.n * b.d + b.n * a.d, a.d * b.d)

\* a - b
NumSub(a, b) == NumAdd(a, NumNeg(b))

\* a / b
NumDiv(a, b) ==
    IF a.k = "nan" \/ b.k = "nan" THEN NaN
    ELSE IF a.k = "inf" /\ b.k = "inf" THEN NaN
    ELSE IF a.k = "inf" THEN Inf(IF b.n < 0 THEN -a.n ELSE a.n)
    ELSE IF b.k = "inf" THEN Zero
    ELSE IF b.n = 0 THEN (IF a.n = 0 THEN NaN ELSE Inf(Sgn(a.n)))
    ELSE Rat(a.n * b.d * Sgn(b.n), a.d * Abs(b.n))

\* a < b (false when either side is NaN)
NumLess(a, b) ==
    /\ a.k # "nan"
    /\ b.k # "nan"
    /\ IF a.k = "inf" THEN a.n < 0 /\ b # a
       ELSE IF b.k = "inf" THEN b.n > 0
       ELSE a.n * b.d < b.n * a.d

\* Number.isFinite(a)
NumIsFinite(a) == a.k = "fin"

\* JavaScript truthiness of a number: NaN and 0 are falsy
NumTruthy(a) == a.k # "nan" /\ a.n # 0

OrZeroKeepsNaN(a) == IF a.k = "nan" \/ a.n # 0 THEN a ELSE Zero

\* a || 0
OrZero(a) == IF NumTruthy(a) THEN a ELSE Zero

(***************************************************************************)
(* JavaScript strings                                                      *)
(***************************************************************************)
Whitespace == {" ", "\t", "\n"}

Digits == {"0", "1", "2", "3", "4", "5", "6", "7", "8", "9"}

DigitVal(c) ==
    CASE c = "0" -> 0 [] c = "1" -> 1 [] c = "2" -> 2 [] c = "3" -> 3
      [] c = "4" -> 4 [] c = "5" -> 5 [] c = "6" -> 6 [] c = "7" -> 7
      [] c = "8" -> 8 [] c = "9" -> 9

\* String.prototype.trim
Trim(s) ==
    LET solid == {i \in 1..Len(s) : s[i] \notin Whitespace}
    IN  IF solid = {} THEN <<>>
        ELSE SubSeq(s, CHOOSE i \in solid : \A j \in solid : i <= j,
                       CHOOSE i \in solid : \A j \in solid : j <= i)

\* the pieces of s between the cut positions `cuts`, a set of pairs
\* <<first, last>> of separator runs
PiecesBetween(s, cuts) ==
    LET n       == Cardinality(cuts)
        \* the k-th cut from the left
        cut(k)  == CHOOSE c \in cuts :
                      Cardinality({e \in cuts : e[1] <= c[1]}) = k
        from(k) == IF k = 1 THEN 1 ELSE cut(k - 1)[2] + 1
        to(k)   == IF k = n + 1 THEN Len(s) ELSE cut(k)[1] - 1
    IN  [k \in 1..(n + 1) |-> SubSeq(s, from(k), to(k))]

\* s.split(c) for a one-character separator c: cut at every occurrence
Split(s, c) ==
    PiecesBetween(s, {<<i, i>> : i \in {j \in 1..Len(s) : s[j] = c}})

\* s.split(/\s+/): cut at every maximal run of whitespace
SplitWs(s) ==
    LET ws     == {i \in 1..Len(s) : s[i] \in Whitespace}
        starts == {i \in ws : i - 1 \notin ws}
        end(i) == CHOOSE j \in ws :
                     /\ j >= i
                     /\ \A m \in i..j : m \in ws
                     /\ j + 1 \notin ws
    IN  PiecesBetween(s, {<<i, end(i)>> : i \in starts})

\* array.slice(n)
Slice(a, n) == SubSeq(a, n + 1, Len(a))

\* pieces.join(c)
RECURSIVE Join(_, _)
Join(pieces, c) ==
    IF pieces = <<>> THEN <<>>
    ELSE IF Len(pieces) = 1 THEN pieces[1]
    ELSE pieces[1] \o <<c>> \o Join(Tail(pieces), c)

StartsWith(s, prefix) ==
    Len(s) >= Len(prefix) /\ SubSeq(s, 1, Len(prefix)) = prefix

RECURSIVE Pow10(_)
Pow10(e) == IF e = 0 THEN 1 ELSE 10 * Pow10(e - 1)

RECURSIVE DigitsValue(_, _)
DigitsValue(s, acc) ==
    IF s = <<>> THEN acc ELSE DigitsValue(Tail(s), 10 * acc + DigitVal(Head(s)))

\* "Inter-| Receive | Transmit"
Header1 ==
    <<"I", "n", "t", "e", "r", "-", "|", " ", "R", "e", "c", "e", "i", "v", "e", " ", "|", " ", "T", "r", "a", "n", "s", "m", "i", "t">>

\* " face |bytes packets|bytes packets"
Header2 ==
    <<" ", "f", "a", "c", "e", " ", "|", "b", "y", "t", "e", "s", " ", "p", "a", "c", "k", "e", "t", "s", "|", "b", "y", "t", "e", "s", " ", "p", "a", "c", "k", "e", "t", "s">>

\* "  eth0: 1000 0 0 0 0 0 0 0 500 0 0 0 0 0 0 0"
LineEth0A ==
    <<" ", " ", "e", "t", "h", "0", ":", " ", "1", "0", "0", "0", " ", "0", " ", "0", " ", "0", " ", "0", " ", "0", " ", "0", " ", "0", " ", "5", "0", "0", " ", "0", " ", "0", " ", "0", " ", "0", " ", "0", " ", "0", " ", "0">>

\* "  eth0: 3000 0 0 0 0 0 0 0 500 0 0 0 0 0 0 0"
LineEth0B ==
    <<" ", " ", "e", "t", "h", "0", ":", " ", "3", "0", "0", "0", " ", "0", " ", "0", " ", "0", " ", "0", " ", "0", " ", "0", " ", "0", " ", "5", "0", "0", " ", "0", " ", "0", " ", "0", " ", "0", " ", "0", " ", "0", " ", "0">>

\* "  eth0: 200 0 0 0 0 0 0 0 900 0 0 0 0 0 0 0"
LineEth0C ==
    <<" ", " ", "e", "t", "h", "0", ":", " ", "2", "0", "0", " ", "0", " ", "0", " ", "0", " ", "0", " ", "0", " ", "0", " ", "0", " ", "9", "0", "0", " ", "0", " ", "0", " ", "0", " ", "0", " ", "0", " ", "0", " ", "0">>

\* "  eth0: Infinity 0 0 0 0 0 0 0 500 0 0 0 0 0 0 0"
LineEth0Inf ==
    <<" ", " ", "e", "t", "h", "0", ":", " ", "I", "n", "f", "i", "n", "i", "t", "y", " ", "0", " ", "0", " ", "0", " ", "0", " ", "0", " ", "0", " ", "0", " ", "5", "0", "0", " ", "0", " ", "0", " ", "0", " ", "0", " ", "0", " ", "0", " ", "0">>

\* "    lo: 77 0 0 0 0 0 0 0 77 0 0 0 0 0 0 0"
LineLo ==
    <<" ", " ", " ", " ", "l", "o", ":", " ", "7", "7", " ", "0", " ", "0", " ", "0", " ", "0", " ", "0", " ", "0", " ", "0", " ", "7", "7", " ", "0", " ", "0", " ", "0", " ", "0", " ", "0", " ", "0", " ", "0">>

\* "   lo0: 5 0 0 0 0 0 0 0 6 0 0 0 0 0 0 0"
LineLo0 ==
    <<" ", " ", " ", "l", "o", "0", ":", " ", "5", " ", "0", " ", "0", " ", "0", " ", "0", " ", "0", " ", "0", " ", "0", " ", "6", " ", "0", " ", "0", " ", "0", " ", "0", " ", "0", " ", "0", " ", "0">>

\* "lo<TAB>: 11 0 0 0 0 0 0 0 12 0 0 0 0 0 0 0"
LineLoSp ==
    <<"l", "o", "\t", ":", " ", "1", "1", " ", "0", " ", "0", " ", "0", " ", "0", " ", "0", " ", "0", " ", "0", " ", "1", "2", " ", "0", " ", "0", " ", "0", " ", "0", " ", "0", " ", "0", " ", "0">>

\* "br-1f: 9 0 0 0 0 0 0 0 9 0 0 0 0 0 0 0"
LineBrDash ==
    <<"b", "r", "-", "1", "f", ":", " ", "9", " ", "0", " ", "0", " ", "0", " ", "0", " ", "0", " ", "0", " ", "0", " ", "9", " ", "0", " ", "0", " ", "0", " ", "0", " ", "0", " ", "0", " ", "0">>

\* "   br0: 3 0 0 0 0 0 0 0 4 0 0 0 0 0 0 0"
LineBr0 ==
    <<" ", " ", " ", "b", "r", "0", ":", " ", "3", " ", "0", " ", "0", " ", "0", " ", "0", " ", "0", " ", "0", " ", "0", " ", "4", " ", "0", " ", "0", " ", "0", " ", "0", " ", "0", " ", "0", " ", "0">>

\* "docker0: 8 0 0 0 0 0 0 0 8 0 0 0 0 0 0 0"
LineDocker0 ==
    <<"d", "o", "c", "k", "e", "r", "0", ":", " ", "8", " ", "0", " ", "0", " ", "0", " ", "0", " ", "0", " ", "0", " ", "0", " ", "8", " ", "0", " ", "0", " ", "0", " ", "0", " ", "0", " ", "0", " ", "0">>

\* "services: 2 0 0 0 0 0 0 0 2 0 0 0 0 0 0 0"
LineServices ==
    <<"s", "e", "r", "v", "i", "c", "e", "s", ":", " ", "2", " ", "0", " ", "0", " ", "0", " ", "0", " ", "0", " ", "0", " ", "0", " ", "2", " ", "0", " ", "0", " ", "0", " ", "0", " ", "0", " ", "0", " ", "0">>

\* "veth9a: 7 0 0 0 0 0 0 0 7 0 0 0 0 0 0 0"
LineVeth ==
    <<"v", "e", "t", "h", "9", "a", ":", " ", "7", " ", "0", " ", "0", " ", "0", " ", "0", " ", "0", " ", "0", " ", "0", " ", "7", " ", "0", " ", "0", " ", "0", " ", "0", " ", "0", " ", "0", " ", "0">>

\* " wlan0: 40 0 0 0 0 0 0 0 30 0 0 0 0 0 0 0"
LineWlan0 ==
    <<" ", "w", "l", "a", "n", "0", ":", " ", "4", "0", " ", "0", " ", "0", " ", "0", " ", "0", " ", "0", " ", "0", " ", "0", " ", "3", "0", " ", "0", " ", "0", " ", "0", " ", "0", " ", "0", " ", "0", " ", "0">>

\* "  eth1 10 0 0 0 0 0 0 0 20 0 0 0 0 0 0 0"
LineNoColon ==
    <<" ", " ", "e", "t", "h", "1", " ", "1", "0", " ", "0", " ", "0", " ", "0", " ", "0", " ", "0", " ", "0", " ", "0", " ", "2", "0", " ", "0", " ", "0", " ", "0", " ", "0", " ", "0", " ", "0", " ", "0">>

\* "  eth2: 1 2 3 4 5 6 7 8"
LineShort ==
    <<" ", " ", "e", "t", "h", "2", ":", " ", "1", " ", "2", " ", "3", " ", "4", " ", "5", " ", "6", " ", "7", " ", "8">>

\* "  eth3: abc 0 0 0 0 0 0 0 60 0 0 0 0 0 0 0"
LineNonNum ==
    <<" ", " ", "e", "t", "h", "3", ":", " ", "a", "b", "c", " ", "0", " ", "0", " ", "0", " ", "0", " ", "0", " ", "0", " ", "0", " ", "6", "0", " ", "0", " ", "0", " ", "0", " ", "0", " ", "0", " ", "0", " ", "0">>

\* "  eth7: 70 0 0 0 0 0 0 0 xyz 0 0 0 0 0 0 0"
LineNonNum8 ==
    <<" ", " ", "e", "t", "h", "7", ":", " ", "7", "0", " ", "0", " ", "0", " ", "0", " ", "0", " ", "0", " ", "0", " ", "0", " ", "x", "y", "z", " ", "0", " ", "0", " ", "0", " ", "0", " ", "0", " ", "0", " ", "0">>

\* "  eth4: -5 0 0 0 0 0 0 0 1.5 0 0 0 0 0 0 0"
LineNegFrac ==
    <<" ", " ", "e", "t", "h", "4", ":", " ", "-", "5", " ", "0", " ", "0", " ", "0", " ", "0", " ", "0", " ", "0", " ", "0", " ", "1", ".", "5", " ", "0", " ", "0", " ", "0", " ", "0", " ", "0", " ", "0", " ", "0">>

\* "  eth5: 1 0 0 0 :0 0 0 0 9 0 0 0 0 0 0 0"
LineTwoColonShort ==
    <<" ", " ", "e", "t", "h", "5", ":", " ", "1", " ", "0", " ", "0", " ", "0", " ", ":", "0", " ", "0", " ", "0", " ", "0", " ", "9", " ", "0", " ", "0", " ", "0", " ", "0", " ", "0", " ", "0", " ", "0">>

\* "  eth6:1 2 3 4 5 6 7 8 9:70 80 90"
LineTwoColonLong ==
    <<" ", " ", "e", "t", "h", "6", ":", "1", " ", "2", " ", "3", " ", "4", " ", "5", " ", "6", " ", "7", " ", "8", " ", "9", ":", "7", "0", " ", "8", "0", " ", "9", "0">>

\* "  <TAB> "
LineBlank ==
    <<" ", " ", "\t", " ">>

\* "Infinity"
InfinityChars ==
    <<"I", "n", "f", "i", "n", "i", "t", "y">>

\* Number(s) for a string s: whitespace is trimmed, the empty string is 0,
\* [+-]Infinity and signed decimal literals (digits with at most one ".")
\* are numbers, every other string is NaN.  Exponent, hexadecimal, octal and
\* binary literals are not modelled; no text of the menus contains one.
NumberOf(s) ==
    LET t       == Trim(s)
        signed  == t # <<>> /\ Head(t) \in {"+", "-"}
        sign    == IF t # <<>> /\ Head(t) = "-" THEN -1 ELSE 1
        body    == IF signed THEN Tail(t) ELSE t
        dots    == {i \in 1..Len(body) : body[i] = "."}
        digs    == SelectSeq(body, LAMBDA c : c \in Digits)
        fracLen == IF dots = {} THEN 0
                   ELSE Len(body) - (CHOOSE i \in dots : TRUE)
    IN  IF t = <<>> THEN Zero
        ELSE IF body = InfinityChars THEN Inf(sign)
        ELSE IF /\ \A i \in 1..Len(body) : body[i] \in Digits \cup {"."}
                /\ Cardinality(dots) <= 1
                /\ digs # <<>>
             THEN Rat(sign * DigitsValue(digs, 0), Pow10(fracLen))
             ELSE NaN

(***************************************************************************)
(* parseProcNetDev                                                         *)
(***************************************************************************)
\* the regular expressions /^lo$/, /^br-/, /^docker/, /^services/, /^veth/
NETWORK_INTERFACE_EXCLUDES ==
    { [anchored |-> TRUE,  text |-> <<"l", "o">>],
      [anchored |-> FALSE, text |-> <<"b", "r", "-">>],
      [anchored |-> FALSE, text |-> <<"d", "o", "c", "k", "e", "r">>],
      [anchored |-> FALSE, text |-> <<"s", "e", "r", "v", "i", "c", "e", "s">>],
      [anchored |-> FALSE, text |-> <<"v", "e", "t", "h">>] }

\* pattern.test(name)
PatternTest(pattern, name) ==
    IF pattern.anchored THEN name = pattern.text
    ELSE StartsWith(name, pattern.text)

isAllowedInterfaceLoPrefix(name) ==
    ~ \E pattern \in NETWORK_INTERFACE_EXCLUDES : StartsWith(name, pattern.text)

isAllowedInterface(name) ==
    ~ \E pattern \in NETWORK_INTERFACE_EXCLUDES : PatternTest(pattern, name)

\* ParseLine with the line cut at its first colon only
ParseLineFirstColon(line, acc) ==
    LET trimmed == Trim(line)
        colons  == {i \in 1..Len(trimmed) : trimmed[i] = ":"}
        first   == CHOOSE i \in colons : \A j \in colons : i <= j
        hasData == colons # {} /\ first < Len(trimmed)
        iface   == Trim(SubSeq(trimmed, 1, first - 1))
        fields  == SplitWs(Trim(SubSeq(trimmed, first + 1, Len(trimmed))))
    IN  IF trimmed = <<>> THEN acc
        ELSE IF ~hasData THEN acc
        ELSE IF ~isAllowedInterface(iface) THEN acc
        ELSE IF Len(fields) < 9 THEN acc
        ELSE [rxBytes |-> NumAdd(acc.rxBytes, OrZero(NumberOf(fields[1]))),
              txBytes |-> NumAdd(acc.txBytes, OrZero(NumberOf(fields[9])))]

\* one iteration of the loop over the lines: the totals after `line`
ParseLine(line, acc) ==
    LET trimmed == Trim(line)
        parts   == Split(trimmed, ":")
        \* [rawName, rawData] = parts; rawData is undefined when there is
        \* no second piece, and !rawData also holds for the empty string
        hasData == Len(parts) >= 2 /\ parts[2] # <<>>
        iface   == Trim(parts[1])
        fields  == SplitWs(Trim(parts[2]))
    IN  IF trimmed = <<>> THEN acc
        ELSE IF ~hasData THEN acc
        ELSE IF ~isAllowedInterface(iface) THEN acc
        ELSE IF Len(fields) < 9 THEN acc
        ELSE [rxBytes |-> NumAdd(acc.rxBytes, OrZero(NumberOf(fields[1]))),
              txBytes |-> NumAdd(acc.txBytes, OrZero(NumberOf(fields[9])))]

RECURSIVE ParseLines(_, _)
ParseLines(lines, acc) ==
    IF lines = <<>> THEN acc
    ELSE ParseLines(Tail(lines), ParseLine(Head(lines), acc))

parseProcNetDev(content) ==
    ParseLines(Slice(Split(content, "\n"), 2),
               [rxBytes |-> Zero, txBytes |-> Zero])

(***************************************************************************)
(* Bounds and inputs of the sampler                                        *)
(***************************************************************************)
\* invocations of getNetworkRates that may be in flight at the same time
Procs == {"p1", "p2"}

\* at most this many invocations are started in one behaviour
MaxCalls == 4

\* values Date.now() may return, in milliseconds (the clock may step in
\* any direction between two calls of Date.now())
ClockValues == {0, 1500, 2000}

\* milliseconds per second, the divisor of deltaSeconds
MsPerSecond == 1000

\* aggregate 1000 / 500 (lo is excluded)
TextA == Join(<<Header1, Header2, LineLo, LineEth0A, <<>>>>, "\n")

\* aggregate 3000 / 500 (docker0 is excluded)
TextB == Join(<<Header1, Header2, LineEth0B, LineDocker0, <<>>>>, "\n")

\* aggregate 200 / 900: rx lower, tx higher than in TextA and TextB
TextC == Join(<<Header1, Header2, LineEth0C, <<>>>>, "\n")

\* aggregate Infinity / 500
TextInf == Join(<<Header1, Header2, LineEth0Inf, <<>>>>, "\n")

\* contents fs.readFile may deliver for /proc/net/dev
SamplerTexts == {TextA, TextB, TextC, TextInf}

(***************************************************************************)
(* State                                                                   *)
(***************************************************************************)
VARIABLES
    lastNetworkSample,  \* the module-level variable
    pc,                 \* position of each invocation
    content,            \* local: the text the read delivered
    rxBytes,            \* local
    txBytes,            \* local
    now,                \* local
    rxPerSec,           \* local
    txPerSec,           \* local
    calls,              \* number of invocations started
    ev,                 \* history: the invocation that finished last
    prevOk,             \* history: counters and timestamp of the latest
                        \*   invocation whose read succeeded
    failedSince,        \* history: an invocation failed after prevOk
    startSample,        \* SpecMono: lastNetworkSample when the invocation
                        \*   was called
    lastRead,           \* SpecMono: counters of the content delivered last
    lastClock,          \* SpecMono: value Date.now() returned last
    parseIds,           \* SpecParse: the lines of the text, as menu indices
    parseState,         \* SpecParse: "idle", "input" or "parsed"
    parseOut            \* SpecParse: result of parseProcNetDev

samplerVars ==
    <<lastNetworkSample, pc, content, rxBytes, txBytes,
      now, rxPerSec, txPerSec, calls, ev, prevOk, failedSince, startSample,
      lastRead, lastClock>>

monoVars == <<lastRead, lastClock>>

parseVars == <<parseIds, parseState, parseOut>>

vars == <<samplerVars, parseVars>>

\* lastNetworkSample = null
NullSample == [present |-> FALSE, rxBytes |-> Zero, txBytes |-> Zero, ts |-> 0]

\* the object {rxBytes, txBytes, ts: now}
Sample(rx, tx, t) == [present |-> TRUE, rxBytes |-> rx, txBytes |-> tx, ts |-> t]

NoEvent ==
    [kind |-> "none", outcome |-> "none", before |-> NullSample,
     prior |-> NullSample, failedBetween |-> FALSE,
     rxBytes |-> Zero, txBytes |-> Zero, now |-> 0,
     rxPerSec |-> Zero, txPerSec |-> Zero]

\* positions between the resolution of the awaited read and the return:
\* lines 44-60 contain no await, so they run without yielding the thread
SyncSection == {"parsed", "stamped", "diffed"}

\* the JavaScript thread is free to start a call or to resume an awaiting
\* invocation only when no invocation is inside its synchronous section
ThreadFreeNoRunToCompletion == TRUE

ThreadFree == \A q \in Procs : pc[q] \notin SyncSection

SamplerInit ==
    /\ lastNetworkSample = NullSample
    /\ pc = [p \in Procs |-> "idle"]
    /\ content = [p \in Procs |-> <<>>]
    /\ rxBytes = [p \in Procs |-> Zero]
    /\ txBytes = [p \in Procs |-> Zero]
    /\ now = [p \in Procs |-> 0]
    /\ rxPerSec = [p \in Procs |-> Zero]
    /\ txPerSec = [p \in Procs |-> Zero]
    /\ calls = 0
    /\ ev = NoEvent
    /\ prevOk = NullSample
    /\ failedSince = FALSE
    /\ startSample = [p \in Procs |-> NullSample]
    /\ lastRead = [rxBytes |-> Zero, txBytes |-> Zero]
    /\ lastClock = 0

ParseIdle ==
    /\ parseIds = <<>>
    /\ parseState = "idle"
    /\ parseOut = [rxBytes |-> Zero, txBytes |-> Zero]

Init == SamplerInit /\ ParseIdle

(***************************************************************************)
(* getNetworkRates                                                         *)
(***************************************************************************)
\* lines 47-57: the rates of a read {rx, tx} at time t against `last`
ComputeRatesNoClamp(last, rx, tx, t) ==
    LET deltaSeconds == NumDiv(Int2Num(t - last.ts), Int2Num(MsPerSecond))
    IN  IF last.present /\ NumLess(Zero, deltaSeconds)
        THEN [rxPerSec |-> NumDiv(NumSub(rx, last.rxBytes), deltaSeconds),
              txPerSec |-> NumDiv(NumSub(tx, last.txBytes), deltaSeconds)]
        ELSE [rxPerSec |-> Zero, txPerSec |-> Zero]

ComputeRatesMillis(last, rx, tx, t) ==
    LET deltaSeconds == Int2Num(t - last.ts)
        rxRaw == NumDiv(NumSub(rx, last.rxBytes), deltaSeconds)
        txRaw == NumDiv(NumSub(tx, last.txBytes), deltaSeconds)
    IN  IF last.present /\ NumLess(Zero, deltaSeconds)
        THEN [rxPerSec |-> IF ~NumIsFinite(rxRaw) \/ NumLess(rxRaw, Zero)
                           THEN Zero ELSE rxRaw,
              txPerSec |-> IF ~NumIsFinite(txRaw) \/ NumLess(txRaw, Zero)
                           THEN Zero ELSE txRaw]
        ELSE [rxPerSec |-> Zero, txPerSec |-> Zero]

ComputeRatesNoDeltaGuard(last, rx, tx, t) ==
    LET deltaSeconds == NumDiv(Int2Num(Abs(t - last.ts)), Int2Num(MsPerSecond))
        rxRaw == NumDiv(NumSub(rx, last.rxBytes), deltaSeconds)
        txRaw == NumDiv(NumSub(tx, last.txBytes), deltaSeconds)
    IN  IF last.present
        THEN [rxPerSec |-> IF ~NumIsFinite(rxRaw) \/ NumLess(rxRaw, Zero)
                           THEN Zero ELSE rxRaw,
              txPerSec |-> IF ~NumIsFinite(txRaw) \/ NumLess(txRaw, Zero)
                           THEN Zero ELSE txRaw]
        ELSE [rxPerSec |-> Zero, txPerSec |-> Zero]

ComputeRatesNoNullCheck(last, rx, tx, t) ==
    LET deltaSeconds == NumDiv(Int2Num(t - last.ts), Int2Num(MsPerSecond))
        rxRaw == NumDiv(NumSub(rx, last.rxBytes), deltaSeconds)
        txRaw == NumDiv(NumSub(tx, last.txBytes), deltaSeconds)
    IN  IF NumLess(Zero, deltaSeconds)
        THEN [rxPerSec |-> IF ~NumIsFinite(rxRaw) \/ NumLess(rxRaw, Zero)
                           THEN Zero ELSE rxRaw,
              txPerSec |-> IF ~NumIsFinite(txRaw) \/ NumLess(txRaw, Zero)
                           THEN Zero ELSE txRaw]
        ELSE [rxPerSec |-> Zero, txPerSec |-> Zero]

ComputeRatesClampBoth(last, rx, tx, t) ==
    LET deltaSeconds == NumDiv(Int2Num(t - last.ts), Int2Num(MsPerSecond))
        rxRaw == NumDiv(NumSub(rx, last.rxBytes), deltaSeconds)
        txRaw == NumDiv(NumSub(tx, last.txBytes), deltaSeconds)
        bad   == \/ ~NumIsFinite(rxRaw) \/ NumLess(rxRaw, Zero)
                 \/ ~NumIsFinite(txRaw) \/ NumLess(txRaw, Zero)
    IN  IF last.present /\ NumLess(Zero, deltaSeconds) /\ ~bad
        THEN [rxPerSec |-> rxRaw, txPerSec |-> txRaw]
        ELSE [rxPerSec |-> Zero, txPerSec |-> Zero]

ComputeRates(last, rx, tx, t) ==
    LET deltaSeconds == NumDiv(Int2Num(t - last.ts), Int2Num(MsPerSecond))
        rxRaw == NumDiv(NumSub(rx, last.rxBytes), deltaSeconds)
        txRaw == NumDiv(NumSub(tx, last.txBytes), deltaSeconds)
    IN  IF last.present /\ NumLess(Zero, deltaSeconds)
        THEN [rxPerSec |-> IF ~NumIsFinite(rxRaw) \/ NumLess(rxRaw, Zero)
                           THEN Zero ELSE rxRaw,
              txPerSec |-> IF ~NumIsFinite(txRaw) \/ NumLess(txRaw, Zero)
                           THEN Zero ELSE txRaw]
        ELSE [rxPerSec |-> Zero, txPerSec |-> Zero]

\* history bookkeeping of an invocation that returns after a successful read
RecordOk(p) ==
    /\ ev' = [kind |-> "ok", outcome |-> "returned",
              before |-> lastNetworkSample, prior |-> prevOk,
              failedBetween |-> failedSince,
              rxBytes |-> rxBytes[p], txBytes |-> txBytes[p], now |-> now[p],
              rxPerSec |-> rxPerSec[p], txPerSec |-> txPerSec[p]]
    /\ prevOk' = Sample(rxBytes[p], txBytes[p], now[p])
    /\ failedSince' = FALSE

\* history bookkeeping of an invocation whose read failed
RecordFail(outcome, rx, tx) ==
    /\ ev' = [kind |-> "fail", outcome |-> outcome,
              before |-> lastNetworkSample, prior |-> prevOk,
              failedBetween |-> failedSince,
              rxBytes |-> Zero, txBytes |-> Zero, now |-> 0,
              rxPerSec |-> rx, txPerSec |-> tx]
    /\ failedSince' = TRUE
    /\ UNCHANGED prevOk

\* the locals of a finished invocation are dropped
DropLocals(p) ==
    /\ pc' = [pc EXCEPT ![p] = "idle"]
    /\ content' = [content EXCEPT ![p] = <<>>]
    /\ rxBytes' = [rxBytes EXCEPT ![p] = Zero]
    /\ txBytes' = [txBytes EXCEPT ![p] = Zero]
    /\ now' = [now EXCEPT ![p] = 0]
    /\ rxPerSec' = [rxPerSec EXCEPT ![p] = Zero]
    /\ txPerSec' = [txPerSec EXCEPT ![p] = Zero]
    /\ startSample' = [startSample EXCEPT ![p] = NullSample]

CallStoresPlaceholder(p) ==
    /\ pc[p] = "idle"
    /\ ThreadFree
    /\ calls < MaxCalls
    /\ calls' = calls + 1
    /\ pc' = [pc EXCEPT ![p] = "reading"]
    /\ UNCHANGED startSample
    /\ lastNetworkSample' = Sample(Zero, Zero, 0)
    /\ UNCHANGED <<content, rxBytes,
                   txBytes, now, rxPerSec, txPerSec, ev, prevOk, failedSince,
                   parseVars, monoVars>>

\* line 43: the call starts the read and awaits it
Call(p) ==
    /\ pc[p] = "idle"
    /\ ThreadFree
    /\ calls < MaxCalls
    /\ calls' = calls + 1
    /\ pc' = [pc EXCEPT ![p] = "reading"]
    /\ UNCHANGED startSample
    /\ UNCHANGED <<lastNetworkSample, content, rxBytes,
                   txBytes, now, rxPerSec, txPerSec, ev, prevOk, failedSince,
                   parseVars, monoVars>>

\* line 43: fs.readFile delivers the content the file has at this moment
ReadOk(p) ==
    /\ pc[p] = "reading"
    /\ \E text \in SamplerTexts : content' = [content EXCEPT ![p] = text]
    /\ pc' = [pc EXCEPT ![p] = "fetched"]
    /\ UNCHANGED <<lastNetworkSample, rxBytes, txBytes,
                   now, rxPerSec, txPerSec, calls, ev, prevOk, failedSince,
                   parseVars, monoVars,
                   startSample>>

\* line 43: fs.readFile rejects
ReadFail(p) ==
    /\ pc[p] = "reading"
    /\ pc' = [pc EXCEPT ![p] = "failed"]
    /\ UNCHANGED <<lastNetworkSample, content, rxBytes,
                   txBytes, now, rxPerSec, txPerSec, calls, ev, prevOk,
                   failedSince, parseVars, monoVars,
                   startSample>>

\* line 44: the invocation resumes and parses the content
Parse(p) ==
    /\ pc[p] = "fetched"
    /\ ThreadFree
    /\ LET r == parseProcNetDev(content[p])
       IN  /\ rxBytes' = [rxBytes EXCEPT ![p] = r.rxBytes]
           /\ txBytes' = [txBytes EXCEPT ![p] = r.txBytes]
    /\ pc' = [pc EXCEPT ![p] = "parsed"]
    /\ UNCHANGED <<lastNetworkSample, content, now,
                   rxPerSec, txPerSec, calls, ev, prevOk, failedSince,
                   parseVars, monoVars,
                   startSample>>

\* line 45: const now = Date.now()
Stamp(p) ==
    /\ pc[p] = "parsed"
    /\ \E t \in ClockValues : now' = [now EXCEPT ![p] = t]
    /\ pc' = [pc EXCEPT ![p] = "stamped"]
    /\ UNCHANGED <<lastNetworkSample, content, rxBytes,
                   txBytes, rxPerSec, txPerSec, calls, ev, prevOk,
                   failedSince, parseVars, monoVars,
                   startSample>>

DiffAgainstStartSample(p) ==
    /\ pc[p] = "stamped"
    /\ LET r == ComputeRates(startSample[p], rxBytes[p], txBytes[p], now[p])
       IN  /\ rxPerSec' = [rxPerSec EXCEPT ![p] = r.rxPerSec]
           /\ txPerSec' = [txPerSec EXCEPT ![p] = r.txPerSec]
    /\ pc' = [pc EXCEPT ![p] = "diffed"]
    /\ UNCHANGED <<lastNetworkSample, content, rxBytes,
                   txBytes, now, calls, ev, prevOk, failedSince, parseVars, monoVars,
                   startSample>>

\* lines 47-57
Diff(p) ==
    /\ pc[p] = "stamped"
    /\ LET r == ComputeRates(lastNetworkSample, rxBytes[p], txBytes[p], now[p])
       IN  /\ rxPerSec' = [rxPerSec EXCEPT ![p] = r.rxPerSec]
           /\ txPerSec' = [txPerSec EXCEPT ![p] = r.txPerSec]
    /\ pc' = [pc EXCEPT ![p] = "diffed"]
    /\ UNCHANGED <<lastNetworkSample, content, rxBytes,
                   txBytes, now, calls, ev, prevOk, failedSince, parseVars, monoVars,
                   startSample>>

StoreOnlyWhenComputed(p) ==
    /\ pc[p] = "diffed"
    /\ lastNetworkSample' =
          IF lastNetworkSample.present /\ now[p] <= lastNetworkSample.ts
          THEN lastNetworkSample
          ELSE Sample(rxBytes[p], txBytes[p], now[p])
    /\ RecordOk(p)
    /\ DropLocals(p)
    /\ UNCHANGED <<calls, parseVars, monoVars>>

\* lines 59-60: the sample is replaced and the rates are returned
Store(p) ==
    /\ pc[p] = "diffed"
    /\ lastNetworkSample' = Sample(rxBytes[p], txBytes[p], now[p])
    /\ RecordOk(p)
    /\ DropLocals(p)
    /\ UNCHANGED <<calls, parseVars, monoVars>>

CatchStoresZeroSample(p) ==
    /\ pc[p] = "failed"
    /\ ThreadFree
    /\ lastNetworkSample' = Sample(Zero, Zero, 0)
    /\ RecordFail("returned", Zero, Zero)
    /\ DropLocals(p)
    /\ UNCHANGED <<calls, parseVars, monoVars>>

CatchRethrows(p) ==
    /\ pc[p] = "failed"
    /\ ThreadFree
    /\ RecordFail("threw", Zero, Zero)
    /\ DropLocals(p)
    /\ UNCHANGED <<lastNetworkSample, calls, parseVars, monoVars>>

\* lines 61-63: the rejection is caught and {0, 0} is returned
Catch(p) ==
    /\ pc[p] = "failed"
    /\ ThreadFree
    /\ RecordFail("returned", Zero, Zero)
    /\ DropLocals(p)
    /\ UNCHANGED <<lastNetworkSample, calls, parseVars, monoVars>>

Next ==
    \/ \E p \in Procs : Call(p)
    \/ \E p \in Procs : ReadOk(p)
    \/ \E p \in Procs : ReadFail(p)
    \/ \E p \in Procs : Parse(p)
    \/ \E p \in Procs : Stamp(p)
    \/ \E p \in Procs : Diff(p)
    \/ \E p \in Procs : Store(p)
    \/ \E p \in Procs : Catch(p)

Spec == Init /\ [][Next]_vars

(***************************************************************************)
(* The sampler with a counter source whose counters never decrease and a   *)
(* clock that never goes back                                              *)
(***************************************************************************)
\* Call(p), recording the sample stored at the time of the call
CallTracked(p) ==
    /\ pc[p] = "idle"
    /\ ThreadFree
    /\ calls < MaxCalls
    /\ calls' = calls + 1
    /\ pc' = [pc EXCEPT ![p] = "reading"]
    /\ startSample' = [startSample EXCEPT ![p] = lastNetworkSample]
    /\ UNCHANGED <<lastNetworkSample, content, rxBytes,
                   txBytes, now, rxPerSec, txPerSec, ev, prevOk, failedSince,
                   parseVars, monoVars>>

\* each content with its aggregate counters
SamplerTotals ==
    {[text |-> text, totals |-> parseProcNetDev(text)] : text \in SamplerTexts}

\* ReadOk(p) where the content delivered has counters not lower than those
\* of the content delivered before
ReadOkMonotone(p) ==
    /\ pc[p] = "reading"
    /\ \E read \in SamplerTotals :
          /\ ~NumLess(read.totals.rxBytes, lastRead.rxBytes)
          /\ ~NumLess(read.totals.txBytes, lastRead.txBytes)
          /\ content' = [content EXCEPT ![p] = read.text]
          /\ lastRead' = read.totals
    /\ pc' = [pc EXCEPT ![p] = "fetched"]
    /\ UNCHANGED <<lastNetworkSample, rxBytes, txBytes, now, rxPerSec,
                   txPerSec, calls, ev, prevOk, failedSince, parseVars,
                   lastClock, startSample>>

\* Stamp(p) where Date.now() is not earlier than its previous value
StampMonotone(p) ==
    /\ pc[p] = "parsed"
    /\ \E t \in ClockValues :
          /\ t >= lastClock
          /\ now' = [now EXCEPT ![p] = t]
          /\ lastClock' = t
    /\ pc' = [pc EXCEPT ![p] = "stamped"]
    /\ UNCHANGED <<lastNetworkSample, content, rxBytes, txBytes, rxPerSec,
                   txPerSec, calls, ev, prevOk, failedSince, parseVars,
                   lastRead, startSample>>

NextMono ==
    \/ \E p \in Procs : CallTracked(p)
    \/ \E p \in Procs : ReadOkMonotone(p)
    \/ \E p \in Procs : ReadFail(p)
    \/ \E p \in Procs : Parse(p)
    \/ \E p \in Procs : StampMonotone(p)
    \/ \E p \in Procs : Diff(p)
    \/ \E p \in Procs : Store(p)
    \/ \E p \in Procs : Catch(p)

SpecMono == Init /\ [][NextMono]_vars

(***************************************************************************)
(* parseProcNetDev on its own                                              *)
(***************************************************************************)
\* number of data lines of a text
MaxLines == 2

\* the lines a text is built from, each with the numbers JavaScript adds
\* for it (counted is FALSE when the line adds nothing)
LineMenu ==
    << [text |-> LineEth0A,    counted |-> TRUE,  rx |-> Int2Num(1000), tx |-> Int2Num(500)],
       [text |-> LineLo,       counted |-> FALSE, rx |-> Zero,          tx |-> Zero],
       [text |-> LineLo0,      counted |-> TRUE,  rx |-> Int2Num(5),    tx |-> Int2Num(6)],
       [text |-> LineLoSp,     counted |-> FALSE, rx |-> Zero,          tx |-> Zero],
       [text |-> LineBrDash,   counted |-> FALSE, rx |-> Zero,          tx |-> Zero],
       [text |-> LineBr0,      counted |-> TRUE,  rx |-> Int2Num(3),    tx |-> Int2Num(4)],
       [text |-> LineDocker0,  counted |-> FALSE, rx |-> Zero,          tx |-> Zero],
       [text |-> LineServices, counted |-> FALSE, rx |-> Zero,          tx |-> Zero],
       [text |-> LineVeth,     counted |-> FALSE, rx |-> Zero,          tx |-> Zero],
       [text |-> LineWlan0,    counted |-> TRUE,  rx |-> Int2Num(40),   tx |-> Int2Num(30)],
       [text |-> LineBlank,    counted |-> FALSE, rx |-> Zero,          tx |-> Zero],
       [text |-> LineNoColon,  counted |-> FALSE, rx |-> Zero,          tx |-> Zero],
       [text |-> LineShort,    counted |-> FALSE, rx |-> Zero,          tx |-> Zero],
       [text |-> LineNonNum,   counted |-> TRUE,  rx |-> Zero,          tx |-> Int2Num(60)],
       [text |-> LineNegFrac,  counted |-> TRUE,  rx |-> Int2Num(-5),   tx |-> Rat(3, 2)],
       [text |-> LineTwoColonShort, counted |-> FALSE, rx |-> Zero,     tx |-> Zero],
       [text |-> LineTwoColonLong,  counted |-> TRUE,  rx |-> Int2Num(1), tx |-> Int2Num(9)],
       [text |-> LineNonNum8,  counted |-> TRUE,  rx |-> Int2Num(70),   tx |-> Zero] >>

\* the text with the two header lines and the data lines ids
ContentOf(ids) ==
    Join(<<Header1, Header2>> \o [i \in 1..Len(ids) |-> LineMenu[ids[i]].text]
            \o << <<>> >>, "\n")

ParseTexts ==
    UNION {[1..n -> 1..Len(LineMenu)] : n \in 0..MaxLines}

InitParse ==
    /\ lastNetworkSample = NullSample
    /\ pc = [p \in Procs |-> "idle"]
    /\ content = [p \in Procs |-> <<>>]
    /\ rxBytes = [p \in Procs |-> Zero]
    /\ txBytes = [p \in Procs |-> Zero]
    /\ now = [p \in Procs |-> 0]
    /\ rxPerSec = [p \in Procs |-> Zero]
    /\ txPerSec = [p \in Procs |-> Zero]
    /\ calls = 0
    /\ ev = NoEvent
    /\ prevOk = NullSample
    /\ failedSince = FALSE
    /\ startSample = [p \in Procs |-> NullSample]
    /\ lastRead = [rxBytes |-> Zero, txBytes |-> Zero]
    /\ lastClock = 0
    /\ parseIds \in ParseTexts
    /\ parseState = "input"
    /\ parseOut = [rxBytes |-> Zero, txBytes |-> Zero]

\* parseProcNetDev(content) is applied to the text
ParseText ==
    /\ parseState = "input"
    /\ parseOut' = parseProcNetDev(ContentOf(parseIds))
    /\ parseState' = "parsed"
    /\ UNCHANGED <<parseIds, samplerVars>>

NextParse == ParseText

SpecParse == InitParse /\ [][NextParse]_vars

(***************************************************************************)
(* Properties                                                              *)
(***************************************************************************)
ZeroRates(e) == e.rxPerSec = Zero /\ e.txPerSec = Zero

\* x is a finite number >= 0
FiniteNonNegative(x) == x.k = "fin" /\ x.d > 0 /\ x.n >= 0

\* the sample that holds the counters and the timestamp of invocation e
SampleOf(e) == Sample(e.rxBytes, e.txBytes, e.now)

\* (cur - old) bytes over dtMs milliseconds in bytes per second, and 0
\* unless both counters are finite and cur >= old
ExpectedRate(cur, old, dtMs) ==
    IF cur.k = "fin" /\ old.k = "fin" /\ cur.n * old.d >= old.n * cur.d
    THEN Rat((cur.n * old.d - old.n * cur.d) * 1000, cur.d * old.d * dtMs)
    ELSE Zero

\* C1: every rate an invocation returns is a finite number >= 0, whatever
\* the reads delivered and whatever the clock did.
C1_RatesFiniteNonNegative ==
    ev.outcome = "returned" =>
        FiniteNonNegative(ev.rxPerSec) /\ FiniteNonNegative(ev.txPerSec)

\* an invocation read an infinite counter against a finite one with the
\* clock advanced, and returned 0 for it
C1_Witness ==
    /\ ev.kind = "ok"
    /\ ev.before.present
    /\ ev.now > ev.before.ts
    /\ ev.rxBytes = Inf(1)
    /\ ev.before.rxBytes.k = "fin"
    /\ ev.rxPerSec = Zero

\* C2: an invocation whose read fails returns {0, 0} and leaves the stored
\* sample as it was, and the next successful invocation computes its rates
\* against the sample of the last successful invocation over the whole
\* interval.
C2_FailedReadLeavesSample ==
    /\ ev.kind = "fail" =>
          /\ ev.outcome = "returned"
          /\ ZeroRates(ev)
          /\ lastNetworkSample = ev.before
    /\ (ev.kind = "ok" /\ ev.failedBetween /\ ev.prior.present
            /\ ev.now > ev.prior.ts) =>
          /\ ev.rxPerSec = ExpectedRate(ev.rxBytes, ev.prior.rxBytes,
                                        ev.now - ev.prior.ts)
          /\ ev.txPerSec = ExpectedRate(ev.txBytes, ev.prior.txBytes,
                                        ev.now - ev.prior.ts)

\* a successful read of 1000/500 at 0, then a failed read, then a successful
\* read of 3000/500 at 2000 that returned 1000 bytes per second
C2_Witness ==
    /\ ev.kind = "ok"
    /\ ev.failedBetween
    /\ ev.prior = Sample(Int2Num(1000), Int2Num(500), 0)
    /\ SampleOf(ev) = Sample(Int2Num(3000), Int2Num(500), 2000)
    /\ ev.rxPerSec = Int2Num(1000)

\* C3: every invocation that finished, after a successful or a failed read,
\* ended by returning a value; none ended with an exception.
C3_NeverThrows ==
    ev.kind # "none" => ev.outcome = "returned"

\* an invocation whose read failed has returned
C3_Witness ==
    /\ ev.kind = "fail"
    /\ ev.outcome = "returned"
    /\ ev.before.present

\* C4: the first invocation whose read succeeds returns {0, 0} whatever the
\* counters are, and its counters and timestamp are stored.
C4_FirstReadZeroAndStored ==
    (ev.kind = "ok" /\ ~ev.prior.present) =>
        /\ ZeroRates(ev)
        /\ ~ev.before.present
        /\ lastNetworkSample = SampleOf(ev)

\* the first successful read, with non-zero counters at a non-zero time,
\* after a failed read
C4_Witness ==
    /\ ev.kind = "ok"
    /\ ~ev.prior.present
    /\ ev.failedBetween
    /\ ev.rxBytes = Int2Num(3000)
    /\ ev.now = 2000
    /\ lastNetworkSample = Sample(Int2Num(3000), Int2Num(500), 2000)

\* C5: when the counters of a successful invocation are not lower than
\* those of the previous successful invocation and its timestamp is later,
\* each rate is the increase divided by the seconds elapsed; 1000/500 at 0
\* followed by 3000/500 at 2000 gives 1000 and 0.
C5_RateIsIncreasePerSecond ==
    /\ (ev.kind = "ok" /\ ev.prior.present /\ ev.now > ev.prior.ts) =>
          /\ (ev.rxBytes.d = 1 /\ ev.prior.rxBytes.d = 1
                /\ ev.rxBytes.n >= ev.prior.rxBytes.n) =>
                ev.rxPerSec.n * (ev.now - ev.prior.ts) =
                    (ev.rxBytes.n - ev.prior.rxBytes.n) * 1000 * ev.rxPerSec.d
          /\ (ev.txBytes.d = 1 /\ ev.prior.txBytes.d = 1
                /\ ev.txBytes.n >= ev.prior.txBytes.n) =>
                ev.txPerSec.n * (ev.now - ev.prior.ts) =
                    (ev.txBytes.n - ev.prior.txBytes.n) * 1000 * ev.txPerSec.d
          /\ (ev.rxBytes = ev.prior.rxBytes /\ ev.txBytes = ev.prior.txBytes
                /\ ev.rxBytes.k = "fin") => ZeroRates(ev)
    /\ (/\ ev.kind = "ok"
        /\ ev.prior = Sample(Int2Num(1000), Int2Num(500), 0)
        /\ SampleOf(ev) = Sample(Int2Num(3000), Int2Num(500), 2000)) =>
          ev.rxPerSec = Int2Num(1000) /\ ev.txPerSec = Zero

\* 1000/500 at 0 followed, without a failure between, by 3000/500 at 2000
C5_Witness ==
    /\ ev.kind = "ok"
    /\ ~ev.failedBetween
    /\ ev.prior = Sample(Int2Num(1000), Int2Num(500), 0)
    /\ SampleOf(ev) = Sample(Int2Num(3000), Int2Num(500), 2000)
    /\ ev.rxPerSec = Int2Num(1000)
    /\ ev.txPerSec = Zero

\* C6: with the clock advanced, a counter lower than in the stored sample
\* gives rate 0 for that direction.
C6_DecreaseClampedToZero ==
    (ev.kind = "ok" /\ ev.before.present /\ ev.now > ev.before.ts) =>
        /\ NumLess(ev.rxBytes, ev.before.rxBytes) => ev.rxPerSec = Zero
        /\ NumLess(ev.txBytes, ev.before.txBytes) => ev.txPerSec = Zero

\* tx fell from 900 to 500 while the clock advanced
C6_Witness ==
    /\ ev.kind = "ok"
    /\ ev.before.present
    /\ ev.now > ev.before.ts
    /\ ev.before.txBytes = Int2Num(900)
    /\ ev.txBytes = Int2Num(500)
    /\ ev.txPerSec = Zero

\* C7: a successful invocation whose timestamp is not later than the stored
\* sample's returns {0, 0} and still replaces the stored sample with its
\* counters and its timestamp.
C7_NoAdvanceZeroButStored ==
    (ev.kind = "ok" /\ ev.before.present /\ ev.now <= ev.before.ts) =>
        /\ ZeroRates(ev)
        /\ lastNetworkSample = SampleOf(ev)

\* the clock went back from 2000 to 1500 while rx rose from 1000 to 3000
C7_Witness ==
    /\ ev.kind = "ok"
    /\ ev.before = Sample(Int2Num(1000), Int2Num(500), 2000)
    /\ SampleOf(ev) = Sample(Int2Num(3000), Int2Num(500), 1500)
    /\ lastNetworkSample.ts = 1500
    /\ ZeroRates(ev)

\* C8: after an invocation whose read succeeded the stored sample is exactly
\* its counters and timestamp, and the sample it diffed against was the one
\* of the latest successful invocation before it.
C8_StoredSampleIsLatestRead ==
    ev.kind = "ok" =>
        /\ lastNetworkSample = SampleOf(ev)
        /\ ev.before = ev.prior

\* stored after a rate was clamped (rx fell) and one was computed (tx rose)
C8_Witness ==
    /\ ev.kind = "ok"
    /\ ev.before = Sample(Int2Num(1000), Int2Num(500), 0)
    /\ lastNetworkSample = Sample(Int2Num(200), Int2Num(900), 1500)
    /\ ev.rxPerSec = Zero
    /\ ev.txPerSec # Zero

\* C9: at most one invocation is between its parse and its store, and the
\* stored sample is absent or is, in all three fields, the sample of one
\* single invocation.
C9_NoInterleavingWholeSample ==
    /\ Cardinality({p \in Procs : pc[p] \in SyncSection}) <= 1
    /\ lastNetworkSample = NullSample \/ lastNetworkSample = prevOk

\* two invocations overlap: one is between parse and store while the read
\* of the other has completed with a different content
C9_Witness ==
    /\ lastNetworkSample.present
    /\ \E p, q \in Procs :
          /\ pc[p] \in SyncSection
          /\ pc[q] = "fetched"
          /\ content[p] # content[q]

RECURSIVE MenuSum(_, _)
\* the sum of field f ("rx" or "tx") of the counted lines among ids
MenuSum(ids, f) ==
    IF ids = <<>> THEN Zero
    ELSE LET line == LineMenu[Head(ids)]
         IN  NumAdd(IF ~line.counted THEN Zero
                    ELSE IF f = "rx" THEN line.rx ELSE line.tx,
                    MenuSum(Tail(ids), f))

\* the interface names of the menu that an exclusion pattern matches
ExcludedMenuLines ==
    {i \in 1..Len(LineMenu) :
        LineMenu[i].text \in {LineLo, LineLoSp, LineBrDash, LineDocker0,
                              LineServices, LineVeth}}

\* C10: lines named lo, br-*, docker*, services* or veth* add nothing, and
\* the totals are the sums of field 0 and field 8 of the other lines (lo0
\* and br0 are counted).
C10_ExcludedInterfacesAddNothing ==
    parseState = "parsed" =>
        /\ parseOut.rxBytes = MenuSum(parseIds, "rx")
        /\ parseOut.txBytes = MenuSum(parseIds, "tx")
        /\ parseOut = parseProcNetDev(ContentOf(
              SelectSeq(parseIds, LAMBDA i : i \notin ExcludedMenuLines)))

\* lo and lo0 in one text: only lo0 is counted
C10_Witness ==
    /\ parseState = "parsed"
    /\ Len(parseIds) = 2
    /\ LineMenu[parseIds[1]].text = LineLo
    /\ LineMenu[parseIds[2]].text = LineLo0
    /\ parseOut = [rxBytes |-> Int2Num(5), txBytes |-> Int2Num(6)]

\* the menu lines that have no colon or fewer than 9 fields
MalformedMenuLines ==
    {i \in 1..Len(LineMenu) : LineMenu[i].text \in {LineNoColon, LineShort}}

\* C11: a line with no colon or with fewer than 9 fields is skipped, so the
\* totals are those of the text without it; a non-numeric field 0 or field 8
\* of a counted line adds 0 and the other field of the line is still added.
C11_MalformedLinesSkipped ==
    parseState = "parsed" =>
        LET kept == SelectSeq(parseIds, LAMBDA i : i \notin MalformedMenuLines)
        IN  /\ parseOut = parseProcNetDev(ContentOf(kept))
            /\ parseOut.rxBytes = MenuSum(kept, "rx")
            /\ parseOut.txBytes = MenuSum(kept, "tx")
            /\ (Len(kept) = 1 /\ LineMenu[kept[1]].text = LineNonNum) =>
                  parseOut = [rxBytes |-> Zero, txBytes |-> Int2Num(60)]
            /\ (Len(kept) = 1 /\ LineMenu[kept[1]].text = LineNonNum8) =>
                  parseOut = [rxBytes |-> Int2Num(70), txBytes |-> Zero]

\* a line with 8 fields followed by a line whose field 0 is "abc"
C11_Witness ==
    /\ parseState = "parsed"
    /\ Len(parseIds) = 2
    /\ LineMenu[parseIds[1]].text = LineShort
    /\ LineMenu[parseIds[2]].text = LineNonNum
    /\ parseOut = [rxBytes |-> Zero, txBytes |-> Int2Num(60)]

\* x is an integer >= 0
NonNegativeInteger(x) == x.k = "fin" /\ x.d = 1 /\ x.n >= 0

\* the menu lines with a negative or fractional token in field 0 or field 8
SignedOrFractionalMenuLines ==
    {i \in 1..Len(LineMenu) : LineMenu[i].text \in {LineNegFrac}}

\* C14 as stated: for every text, negative and fractional tokens included,
\* both totals are integers >= 0.
C14_AsClaimed ==
    parseState = "parsed" =>
        /\ NonNegativeInteger(parseOut.rxBytes)
        /\ NonNegativeInteger(parseOut.txBytes)

\* C14 amended: when field 0 and field 8 of every counted line are
\* non-negative integer tokens or non-numeric tokens, both totals are
\* integers >= 0; a negative or fractional token is added as it is ("-5"
\* and "1.5" alone give -5 and 3/2).
C14_NonNegativeForPlainTokens ==
    parseState = "parsed" =>
        /\ (\A i \in 1..Len(parseIds) :
                parseIds[i] \notin SignedOrFractionalMenuLines) =>
              /\ NonNegativeInteger(parseOut.rxBytes)
              /\ NonNegativeInteger(parseOut.txBytes)
        /\ (Len(parseIds) = 1 /\ LineMenu[parseIds[1]].text = LineNegFrac) =>
              parseOut = [rxBytes |-> Int2Num(-5), txBytes |-> Rat(3, 2)]

\* a line with a non-numeric field 0 and a line with integer tokens
C14_Witness ==
    /\ parseState = "parsed"
    /\ Len(parseIds) = 2
    /\ LineMenu[parseIds[1]].text = LineNonNum
    /\ LineMenu[parseIds[2]].text = LineEth0A
    /\ parseOut = [rxBytes |-> Int2Num(1000), txBytes |-> Int2Num(560)]

RECURSIVE FirstColonTotals(_, _)
\* the totals when every line is cut at its first colon only
FirstColonTotals(ids, acc) ==
    IF ids = <<>> THEN acc
    ELSE FirstColonTotals(Tail(ids),
                          ParseLineFirstColon(LineMenu[Head(ids)].text, acc))

\* the line without its second colon and everything after it
UpToSecondColon(line) ==
    LET colons == {i \in 1..Len(line) : line[i] = ":"}
        second == CHOOSE i \in colons :
                     Cardinality({j \in colons : j < i}) = 1
    IN  IF Cardinality(colons) >= 2 THEN SubSeq(line, 1, second - 1) ELSE line

\* C15 as stated: the field list of a line is everything after its first
\* colon, later colons included.
C15_AsClaimed ==
    parseState = "parsed" =>
        parseOut = FirstColonTotals(parseIds, [rxBytes |-> Zero, txBytes |-> Zero])

\* C15 amended: a line is cut at every colon; the name is the text before
\* the first colon, the field list is the text between the first and the
\* second colon, and what follows a second colon is ignored.
C15_FieldListEndsAtSecondColon ==
    parseState = "parsed" =>
        /\ parseOut = parseProcNetDev(
              Join(<<Header1, Header2>>
                     \o [i \in 1..Len(parseIds) |->
                            UpToSecondColon(LineMenu[parseIds[i]].text)]
                     \o << <<>> >>, "\n"))
        /\ (Len(parseIds) = 1
              /\ LineMenu[parseIds[1]].text = LineTwoColonLong) =>
              parseOut = [rxBytes |-> Int2Num(1), txBytes |-> Int2Num(9)]
        /\ (Len(parseIds) = 1
              /\ LineMenu[parseIds[1]].text = LineTwoColonShort) =>
              parseOut = [rxBytes |-> Zero, txBytes |-> Zero]

\* "eth6:1 2 3 4 5 6 7 8 9:70 80 90" alone: field 8 is "9"
C15_Witness ==
    /\ parseState = "parsed"
    /\ Len(parseIds) = 1
    /\ LineMenu[parseIds[1]].text = LineTwoColonLong
    /\ parseOut = [rxBytes |-> Int2Num(1), txBytes |-> Int2Num(9)]

\* the step is invocation p returning after a successful read
ReturnsOk(p) == pc[p] = "diffed" /\ pc'[p] = "idle"

\* the step is invocation p returning after a failed read
ReturnsFailed(p) == pc[p] = "failed" /\ pc'[p] = "idle"

\* C12: the sampler leaves NoSample only by an invocation whose read
\* succeeded, which reports {0, 0}; a failed read leaves the state as it
\* is; HasSample is never left.
C12_StateMachine ==
    [][ /\ lastNetworkSample.present => lastNetworkSample'.present
        /\ (~lastNetworkSample.present /\ lastNetworkSample'.present) =>
              \E p \in Procs : ReturnsOk(p)
        /\ (~lastNetworkSample.present /\ \E p \in Procs : ReturnsOk(p)) =>
              /\ lastNetworkSample'.present
              /\ ev'.outcome = "returned"
              /\ ZeroRates(ev')
        /\ (\E p \in Procs : ReturnsFailed(p)) =>
              /\ lastNetworkSample' = lastNetworkSample
              /\ ev'.outcome = "returned"
              /\ ZeroRates(ev')
      ]_vars

\* NoSample, a failed read, then a successful read of 1000/500 that
\* reported {0, 0} and led to HasSample
C12_Witness ==
    /\ ev.kind = "ok"
    /\ ev.failedBetween
    /\ ~ev.before.present
    /\ ev.rxBytes = Int2Num(1000)
    /\ ZeroRates(ev)
    /\ lastNetworkSample.present

\* C13: the stored sample changes only in the step in which an invocation
\* whose own read was delivered returns, and it becomes that invocation's
\* sample; an invocation whose read is pending changes nothing.
C13_WrittenOnlyAfterOwnRead ==
    [][ lastNetworkSample' # lastNetworkSample =>
            \E p \in Procs :
                /\ ReturnsOk(p)
                /\ content[p] \in SamplerTexts
                /\ lastNetworkSample' = Sample(rxBytes[p], txBytes[p], now[p])
      ]_vars

\* one invocation still awaits its read while the other one has stored
C13_Witness ==
    /\ calls = 2
    /\ ev.kind = "ok"
    /\ lastNetworkSample = SampleOf(ev)
    /\ \E p \in Procs : pc[p] = "reading"

\* C18: with the clock advanced, when one counter is lower than in the
\* stored sample and the other is not, the lower direction returns 0 and
\* the other one its increase per second.
C18_DirectionsIndependent ==
    (ev.kind = "ok" /\ ev.before.present /\ ev.now > ev.before.ts) =>
        /\ (/\ NumLess(ev.rxBytes, ev.before.rxBytes)
            /\ ev.txBytes.k = "fin" /\ ev.before.txBytes.k = "fin"
            /\ ~NumLess(ev.txBytes, ev.before.txBytes)) =>
              /\ ev.rxPerSec = Zero
              /\ ev.txPerSec = ExpectedRate(ev.txBytes, ev.before.txBytes,
                                            ev.now - ev.before.ts)
        /\ (/\ NumLess(ev.txBytes, ev.before.txBytes)
            /\ ev.rxBytes.k = "fin" /\ ev.before.rxBytes.k = "fin"
            /\ ~NumLess(ev.rxBytes, ev.before.rxBytes)) =>
              /\ ev.txPerSec = Zero
              /\ ev.rxPerSec = ExpectedRate(ev.rxBytes, ev.before.rxBytes,
                                            ev.now - ev.before.ts)

\* 1000/500 at 0 followed by 200/900 at 2000: rx returns 0, tx returns 200
C18_Witness ==
    /\ ev.kind = "ok"
    /\ ev.before = Sample(Int2Num(1000), Int2Num(500), 0)
    /\ SampleOf(ev) = Sample(Int2Num(200), Int2Num(900), 2000)
    /\ ev.rxPerSec = Zero
    /\ ev.txPerSec = Int2Num(200)

\* C16 as stated: with counters that never decrease and a clock that never
\* goes back, the (finite) counters of the stored sample never decrease
\* from one stored sample to the next.
C16_StoredCountersNeverDecrease ==
    [][ (/\ lastNetworkSample.present
         /\ lastNetworkSample'.present
         /\ lastNetworkSample.rxBytes.k = "fin"
         /\ lastNetworkSample'.rxBytes.k = "fin") =>
            /\ ~NumLess(lastNetworkSample'.rxBytes, lastNetworkSample.rxBytes)
            /\ ~NumLess(lastNetworkSample'.txBytes, lastNetworkSample.txBytes)
      ]_vars

\* the rate of counter cur at time t against counter old of sample base
RateAgainst(base, old, cur, t) ==
    IF base.present /\ t > base.ts
    THEN ExpectedRate(cur, old, t - base.ts)
    ELSE Zero

\* C17: an invocation computes its rates against the sample stored when it
\* resumes after its read, which is the sample of the invocation that
\* returned last, whatever was stored when it was called; the rates it
\* returns are those, and the sample it replaces is that one.
C17_DiffsAgainstSampleAtCompletion ==
    [][ \A p \in Procs :
          /\ (pc[p] = "stamped" /\ pc'[p] = "diffed") =>
                /\ lastNetworkSample = prevOk
                /\ rxPerSec'[p] = RateAgainst(prevOk, prevOk.rxBytes,
                                              rxBytes[p], now[p])
                /\ txPerSec'[p] = RateAgainst(prevOk, prevOk.txBytes,
                                              txBytes[p], now[p])
          /\ ReturnsOk(p) =>
                /\ ev'.before = prevOk
                /\ ev'.rxPerSec = rxPerSec[p]
                /\ ev'.txPerSec = txPerSec[p]
                /\ prevOk' = Sample(rxBytes[p], txBytes[p], now[p])
      ]_vars

\* an invocation called when no sample was stored has computed 1000 bytes
\* per second against the sample 1000/500 at 0 that an overlapping
\* invocation stored while it was in flight
C17_Witness ==
    \E p \in Procs :
        /\ pc[p] = "diffed"
        /\ startSample[p] = NullSample
        /\ lastNetworkSample = Sample(Int2Num(1000), Int2Num(500), 0)
        /\ rxBytes[p] = Int2Num(3000)
        /\ now[p] = 2000
        /\ rxPerSec[p] = Int2Num(1000)

====
